---- MODULE Spec2Model ----
(***************************************************************************)
(* MemoryBank: the bounded in-process key/value cache with per-entry TTL,  *)
(* FIFO capacity eviction, statistics and an event feed.                   *)
(*                                                                         *)
(* The two JavaScript Maps (data, metadata) are sequences of [k, v] pairs  *)
(* in insertion order; a method is an operator from the store's mutable    *)
(* part `s` to [s, ret, thrown]; an action runs one whole method call.     *)
(* Subscribers are external code: in each call a chosen set of channels    *)
(* has a subscriber that throws, and the error channel has no subscriber,  *)
(* a quiet one or a throwing one.                                          *)
(***************************************************************************)
EXTENDS Integers, Sequences, FiniteSets, TLC

VARIABLES options, data, metadata, stats, cleanupTimer, nextSweep, now,
          running, events, ret, raised, lastOp, calls, prevWrite,
          listing, aliased, closed, cleaned, batch, observed, evicted

\* listing, aliased: the latest listing the caller was handed, as it reads
\* now, and the keys whose triple shares its metadata object with the store.
\* prevWrite, closed, cleaned, batch: histories of the run, read by no operation.
\* observed: for each event of the last step, the two maps as its subscribers
\* found them.  evicted: the entry the last step's set evicted, as it was.
\* (calls, now and nextSweep come first: every step changes one of them.)
vars == <<calls, now, nextSweep, options, data, metadata, stats, cleanupTimer,
          running, events, ret, raised, lastOp, prevWrite,
          listing, aliased, closed, cleaned, batch, observed, evicted>>

----------------------------------------------------------------------------
(* Bounds of the model. *)

\* The clock runs over 0..MaxTime.
MaxTime == 4

\* The caller makes at most MaxOps calls of public operations.
MaxOps == 3

(* Program constants. *)
DefaultMaxSize == 1000
DefaultTtl == 0
DefaultCleanupInterval == 60000

(* Inputs. *)
Keys == {"", "a", "b"}
\* Values are opaque to the store: the caller's n-th call passes a payload of
\* its own, so a value read back tells which call wrote it.
Payload(n) == "v" \o ToString(n)
Null == -1
Undefined == "undefined"
\* History, read by no operation: for each key, the createdAt and ttl of the
\* entry that the latest set of that key overwrote, if it overwrote one.
NoWrite == [createdAt |-> Null, ttl |-> Null]
\* History, read by no operation: the caller's calls so far, while they are
\* all sets with the default TTL, of distinct keys, at the one instant t0,
\* each of which returned true; NoBatch once a call was anything else.
EmptyBatch == [ok |-> TRUE, t0 |-> Null, keys |-> {}]
\* No entry was evicted by the last step.
NoVictim == [key |-> "null", createdAt |-> Null, expired |-> FALSE]

NoBatch == [ok |-> FALSE, t0 |-> Null, keys |-> {}]
\* The ttl argument of set: null (use the store default), or an override
\* of the other kind than the default o: 0 where the default is positive, a
\* positive TTL where the default is 0.
TtlArgs(o) == IF o > 0 THEN {Null, 0} ELSE {Null, 2}
\* The ttl argument of setTTL.
TtlValues == {0, 3}

\* The options objects stores are constructed with; an option left out
\* takes its default.
OptionChoices ==
    {[maxSize |-> 0, cleanupInterval |-> 1],
     [maxSize |-> 1, ttl |-> 2, cleanupInterval |-> 1],
     [maxSize |-> 2, cleanupInterval |-> 1],
     [maxSize |-> 2, ttl |-> 3, autoCleanup |-> FALSE, cleanupInterval |-> 2],
     [ttl |-> 2, cleanupInterval |-> 1]}

(* Subscribers. *)
Channels == {"initialized", "set", "hit", "miss", "delete", "clear", "eviction",
             "cleanup", "ttlUpdated", "closed"}
NoThrow == "none"
\* The error channel: no subscriber (EventEmitter throws the error itself,
\* as does a subscriber that throws) or a subscriber that returns.
ErrModes == {"none", "ok"}
NoFault == [thr |-> {}, err |-> "ok"]
\* The subscriber behaviours of one call that publishes the events evs when
\* no subscriber throws: none throws, or those of one of its channels throw.
\* (A subscriber of a channel the call does not publish on is not run.)
Faults(evs) ==
    {NoFault}
    \cup {[thr |-> {evs[i].ch}, err |-> e] : i \in 1..Len(evs), e \in ErrModes}

----------------------------------------------------------------------------
(* JavaScript Map: insertion-ordered, keys unique. *)

MapHas(m, k) == \E i \in 1..Len(m) : m[i].k = k

MapGet(m, k) == m[CHOOSE i \in 1..Len(m) : m[i].k = k].v

MapSet(m, k, v) ==
    IF MapHas(m, k)
    THEN [i \in 1..Len(m) |-> IF m[i].k = k THEN [k |-> k, v |-> v] ELSE m[i]]
    ELSE Append(m, [k |-> k, v |-> v])

MapDelete(m, k) == SelectSeq(m, LAMBDA e : e.k # k)

MapKeys(m) == [i \in 1..Len(m) |-> m[i].k]

MapValues(m) == [i \in 1..Len(m) |-> m[i].v]

KeySet(m) == {m[i].k : i \in 1..Len(m)}

\* JavaScript truthiness of a number-or-null.
TruthyNum(x) == x # Null /\ x # 0

----------------------------------------------------------------------------
(* Results and events. *)

Ret(s, v) == [s |-> s, ret |-> v, thrown |-> NoThrow]
Throw(s, t, v) == [s |-> s, ret |-> v, thrown |-> t]

\* What a subscriber finds in the store while an event is published: the
\* two maps as they are at the emit call.
Observation(s) == [data |-> s.data, metadata |-> s.metadata]

\* EventEmitter.emit: the subscribers run in the caller; one that throws
\* makes emit throw.
Emit(s, ev, f) ==
    [s |-> [s EXCEPT !.events = Append(@, ev),
                     !.observed = Append(@, Observation(s))],
     thrown |-> IF ev.ch \in f.thr THEN ev.ch ELSE NoThrow]

\* emit('error', error): without a subscriber EventEmitter throws the error.
EmitError(s, err, f) ==
    [s |-> [s EXCEPT !.events = Append(@, [ch |-> "error", cause |-> err]),
                     !.observed = Append(@, Observation(s))],
     thrown |-> IF f.err = "ok" THEN NoThrow ELSE err]

\* catch (error) { this.emit('error', error); return v; }
Catch(s, err, v, f) ==
    LET e == EmitError(s, err, f) IN [s |-> e.s, ret |-> v, thrown |-> e.thrown]

----------------------------------------------------------------------------
(* The constructor. *)

\* { name: options.name || default, ...options }: the spread that follows
\* the defaults puts back whatever the caller passed, a 0 included; only an
\* option left out keeps its default.
Option(opts, name, default) ==
    IF name \in DOMAIN opts THEN opts[name] ELSE default

constructor(opts) ==
    [maxSize |-> Option(opts, "maxSize", DefaultMaxSize),
     ttl |-> Option(opts, "ttl", DefaultTtl),
     autoCleanup |-> Option(opts, "autoCleanup", TRUE),
     cleanupInterval |-> Option(opts, "cleanupInterval", DefaultCleanupInterval)]

ZeroStats ==
    [totalOperations |-> 0, reads |-> 0, writes |-> 0, deletes |-> 0,
     evictions |-> 0, hits |-> 0, misses |-> 0]

\* if (this.options.autoCleanup && this.options.ttl > 0): the constructor
\* starts the sweep timer.
\* The test with || in the place of &&.
AutoCleanupOnEither(o) == o.autoCleanup \/ o.ttl > 0

AutoCleanupOn(o) == o.autoCleanup /\ o.ttl > 0

Init ==
    /\ \E opts \in OptionChoices : options = constructor(opts)
    /\ data = <<>>
    /\ metadata = <<>>
    /\ stats = ZeroStats
    /\ now = 0
    /\ cleanupTimer = AutoCleanupOn(options)
    /\ nextSweep = IF cleanupTimer THEN now + options.cleanupInterval ELSE Null
    /\ running = TRUE
    /\ events = <<[ch |-> "initialized", maxSize |-> options.maxSize,
                   ttl |-> options.ttl, autoCleanup |-> options.autoCleanup]>>
    /\ ret = Undefined
    /\ raised = FALSE
    /\ lastOp = [name |-> "constructor"]
    /\ calls = 0
    /\ prevWrite = [k \in Keys |-> NoWrite]
    /\ listing = <<>>
    /\ aliased = {}
    /\ closed = FALSE
    /\ cleaned = 0
    /\ batch = EmptyBatch
    /\ observed = <<[data |-> data, metadata |-> metadata]>>
    /\ evicted = NoVictim

\* The mutable part of the store, as a call finds it.
Self ==
    [data |-> data, metadata |-> metadata, stats |-> stats,
     cleanupTimer |-> cleanupTimer, events |-> <<>>, observed |-> <<>>]

----------------------------------------------------------------------------
(* delete *)

\* A delete that forgets the metadata map.
RemoveEntryDataOnly(s, key) == [s EXCEPT !.data = MapDelete(@, key)]

RemoveEntry(s, key) ==
    [s EXCEPT !.data = MapDelete(@, key), !.metadata = MapDelete(@, key)]

\* A delete that publishes its event before it removes the entry.
deletePublishingFirst(s, key, f) ==
    IF ~MapHas(s.data, key) THEN Ret(s, FALSE)
    ELSE LET e == Emit(s, [ch |-> "delete", key |-> key, size |-> Len(s.data)], f)
             s1 == RemoveEntry(e.s, key)
             s2 == [s1 EXCEPT !.stats.deletes = @ + 1,
                              !.stats.totalOperations = @ + 1]
         IN IF e.thrown = NoThrow THEN Ret(s2, TRUE)
            ELSE Catch(s2, e.thrown, FALSE, f)

delete(s, key, f) ==
    IF ~MapHas(s.data, key) THEN Ret(s, FALSE)
    ELSE LET s1 == RemoveEntry(s, key)
             s2 == [s1 EXCEPT !.stats.deletes = @ + 1,
                              !.stats.totalOperations = @ + 1]
             e == Emit(s2, [ch |-> "delete", key |-> key, size |-> Len(s2.data)], f)
         IN IF e.thrown = NoThrow THEN Ret(e.s, TRUE)
            ELSE Catch(e.s, e.thrown, FALSE, f)

----------------------------------------------------------------------------
(* _evictOldest *)

NoKey == "null"

\* Infinity, the scan's first oldestTime: every createdAt is below it.
Infinity == -2
Earlier(createdAt, oldestTime) == oldestTime = Infinity \/ createdAt < oldestTime

RECURSIVE ScanOldest(_, _, _, _)
\* for (const [key, metadata] of this.metadata.entries()) { if (<) {...} }
ScanOldest(md, i, oldestKey, oldestTime) ==
    IF i > Len(md) THEN oldestKey
    ELSE IF Earlier(md[i].v.createdAt, oldestTime)
    THEN ScanOldest(md, i + 1, md[i].k, md[i].v.createdAt)
    ELSE ScanOldest(md, i + 1, oldestKey, oldestTime)

\* A choice that takes the first expired entry, if there is one, before it
\* looks at createdAt.
OldestKeyExpiredFirst(md) ==
    LET expired == SelectSeq(md, LAMBDA e : TruthyNum(e.v.expiresAt)
                                             /\ now > e.v.expiresAt)
    IN IF expired # <<>> THEN Head(expired).k
       ELSE ScanOldest(md, 1, NoKey, Infinity)

OldestKey(md) == ScanOldest(md, 1, NoKey, Infinity)

\* if (oldestKey)
EvictGuard(k) == k # NoKey /\ k # ""

_evictOldest(s, f) ==
    LET oldestKey == OldestKey(s.metadata) IN
    IF ~EvictGuard(oldestKey) THEN Ret(s, Undefined)
    ELSE LET d == delete(s, oldestKey, f) IN
         IF d.thrown # NoThrow THEN Throw(d.s, d.thrown, Undefined)
         ELSE LET s1 == [d.s EXCEPT !.stats.evictions = @ + 1]
                  e == Emit(s1, [ch |-> "eviction", key |-> oldestKey,
                                 reason |-> "size_limit"], f)
              IN [s |-> e.s, ret |-> Undefined, thrown |-> e.thrown]

----------------------------------------------------------------------------
(* set *)

\* The capacity test without its && !this.data.has(key).
NeedsEvictionWhenFull(s, key) == Len(s.data) >= options.maxSize

NeedsEviction(s, key) ==
    Len(s.data) >= options.maxSize /\ ~MapHas(s.data, key)

EffectiveTtl(ttl) == IF ttl # Null THEN ttl ELSE options.ttl

\* Metadata whose expiresAt is computed without the test for ttl > 0.
NewMetadataAlwaysExpiring(effectiveTtl) ==
    [createdAt |-> now,
     ttl |-> effectiveTtl,
     expiresAt |-> now + effectiveTtl,
     accessCount |-> 0,
     lastAccess |-> now]

NewMetadata(effectiveTtl) ==
    [createdAt |-> now,
     ttl |-> effectiveTtl,
     expiresAt |-> IF effectiveTtl > 0 THEN now + effectiveTtl ELSE Null,
     accessCount |-> 0,
     lastAccess |-> now]

\* A write that keeps the metadata of a key that is already stored.
StoreEntryKeepingMetadata(s, key, value, effectiveTtl) ==
    [s EXCEPT !.data = MapSet(@, key, value),
              !.metadata = IF MapHas(@, key) THEN @
                           ELSE MapSet(@, key, NewMetadata(effectiveTtl))]

StoreEntry(s, key, value, effectiveTtl) ==
    [s EXCEPT !.data = MapSet(@, key, value),
              !.metadata = MapSet(@, key, NewMetadata(effectiveTtl))]

set(s, key, value, ttl, f) ==
    LET s1 == [s EXCEPT !.stats.totalOperations = @ + 1, !.stats.writes = @ + 1]
        ev == IF NeedsEviction(s1, key) THEN _evictOldest(s1, f)
              ELSE Ret(s1, Undefined)
    IN IF ev.thrown # NoThrow THEN Catch(ev.s, ev.thrown, FALSE, f)
       ELSE LET s2 == StoreEntry(ev.s, key, value, EffectiveTtl(ttl))
                e == Emit(s2, [ch |-> "set", key |-> key, size |-> Len(s2.data)], f)
            IN IF e.thrown = NoThrow THEN Ret(e.s, TRUE)
               ELSE Catch(e.s, e.thrown, FALSE, f)

----------------------------------------------------------------------------
(* get, has *)

\* metadata.expiresAt && Date.now() > metadata.expiresAt
\* The expiry test with >= in the place of >.
IsExpiredAtDeadline(m) == TruthyNum(m.expiresAt) /\ now >= m.expiresAt

IsExpired(m) == TruthyNum(m.expiresAt) /\ now > m.expiresAt

Touch(m) == [m EXCEPT !.accessCount = @ + 1, !.lastAccess = now]

get(s, key, f) ==
    LET s1 == [s EXCEPT !.stats.totalOperations = @ + 1, !.stats.reads = @ + 1] IN
    IF ~MapHas(s1.data, key)
    THEN LET s2 == [s1 EXCEPT !.stats.misses = @ + 1]
             e == Emit(s2, [ch |-> "miss", key |-> key, reason |-> Undefined], f)
         IN IF e.thrown = NoThrow THEN Ret(e.s, Undefined)
            ELSE Catch(e.s, e.thrown, Undefined, f)
    ELSE IF ~MapHas(s1.metadata, key)
    THEN Catch(s1, "TypeError", Undefined, f)
    ELSE IF IsExpired(MapGet(s1.metadata, key))
    THEN LET d == delete(s1, key, f) IN
         IF d.thrown # NoThrow THEN Catch(d.s, d.thrown, Undefined, f)
         ELSE LET s2 == [d.s EXCEPT !.stats.misses = @ + 1]
                  e == Emit(s2, [ch |-> "miss", key |-> key, reason |-> "expired"], f)
              IN IF e.thrown = NoThrow THEN Ret(e.s, Undefined)
                 ELSE Catch(e.s, e.thrown, Undefined, f)
    ELSE LET m == Touch(MapGet(s1.metadata, key))
             s2 == [s1 EXCEPT !.metadata = MapSet(@, key, m), !.stats.hits = @ + 1]
             e == Emit(s2, [ch |-> "hit", key |-> key, accessCount |-> m.accessCount], f)
         IN IF e.thrown = NoThrow THEN Ret(e.s, MapGet(s2.data, key))
            ELSE Catch(e.s, e.thrown, Undefined, f)

\* A has that asks get.
hasThroughGet(s, key, f) ==
    LET g == get(s, key, f) IN
    [s |-> g.s, ret |-> g.ret # Undefined, thrown |-> g.thrown]

has(s, key, f) ==
    IF ~MapHas(s.data, key) THEN Ret(s, FALSE)
    ELSE IF ~MapHas(s.metadata, key) THEN Throw(s, "TypeError", FALSE)
    ELSE IF IsExpired(MapGet(s.metadata, key))
    THEN LET d == delete(s, key, f) IN
         IF d.thrown # NoThrow THEN Throw(d.s, d.thrown, FALSE) ELSE Ret(d.s, FALSE)
    ELSE Ret(s, TRUE)

----------------------------------------------------------------------------
(* clear *)

\* A clear that also starts the statistics afresh.
clearResettingStats(s, f) ==
    LET count == Len(s.data)
        s1 == [s EXCEPT !.data = <<>>, !.metadata = <<>>, !.stats = ZeroStats]
        e == Emit(s1, [ch |-> "clear", count |-> count], f)
    IN [s |-> e.s, ret |-> count, thrown |-> e.thrown]

clear(s, f) ==
    LET count == Len(s.data)
        s1 == [s EXCEPT !.data = <<>>, !.metadata = <<>>]
        e == Emit(s1, [ch |-> "clear", count |-> count], f)
    IN [s |-> e.s, ret |-> count, thrown |-> e.thrown]

----------------------------------------------------------------------------
(* _cleanupExpired and the listings *)

\* A scan that stops at the first expired key.
ExpiredKeysFirstOnly(md) ==
    LET found == MapKeys(SelectSeq(md, LAMBDA e : IsExpired(e.v))) IN
    IF found = <<>> THEN <<>> ELSE <<Head(found)>>

ExpiredKeys(md) == MapKeys(SelectSeq(md, LAMBDA e : IsExpired(e.v)))

RECURSIVE DeleteExpiredUncounted(_, _, _)
\* The loop without its this.stats.evictions++.
DeleteExpiredUncounted(s, ks, f) ==
    IF ks = <<>> THEN Ret(s, Undefined)
    ELSE LET d == delete(s, Head(ks), f) IN
         IF d.thrown # NoThrow THEN Throw(d.s, d.thrown, Undefined)
         ELSE DeleteExpiredUncounted(d.s, Tail(ks), f)

RECURSIVE DeleteExpired(_, _, _)
\* for (const key of expiredKeys) { this.delete(key); this.stats.evictions++; }
DeleteExpired(s, ks, f) ==
    IF ks = <<>> THEN Ret(s, Undefined)
    ELSE LET d == delete(s, Head(ks), f) IN
         IF d.thrown # NoThrow THEN Throw(d.s, d.thrown, Undefined)
         ELSE DeleteExpired([d.s EXCEPT !.stats.evictions = @ + 1], Tail(ks), f)

\* if (this.options.ttl <= 0) return;
CleanupEnabled == options.ttl > 0

_cleanupExpired(s, f) ==
    IF ~CleanupEnabled THEN Ret(s, Undefined)
    ELSE LET expiredKeys == ExpiredKeys(s.metadata)
             d == DeleteExpired(s, expiredKeys, f)
         IN IF d.thrown # NoThrow THEN d
            ELSE IF Len(expiredKeys) > 0
            THEN LET e == Emit(d.s, [ch |-> "cleanup",
                                     expiredCount |-> Len(expiredKeys)], f)
                 IN [s |-> e.s, ret |-> Undefined, thrown |-> e.thrown]
            ELSE d

keys(s, f) ==
    LET c == _cleanupExpired(s, f) IN
    IF c.thrown # NoThrow THEN Throw(c.s, c.thrown, <<>>)
    ELSE Ret(c.s, MapKeys(c.s.data))

values(s, f) ==
    LET c == _cleanupExpired(s, f) IN
    IF c.thrown # NoThrow THEN Throw(c.s, c.thrown, <<>>)
    ELSE Ret(c.s, MapValues(c.s.data))

Triples(s) ==
    LET present == SelectSeq(s.data, LAMBDA e : MapHas(s.metadata, e.k)) IN
    [i \in 1..Len(present) |->
        [key |-> present[i].k, value |-> present[i].v,
         metadata |-> MapGet(s.metadata, present[i].k)]]

entries(s, f) ==
    LET c == _cleanupExpired(s, f) IN
    IF c.thrown # NoThrow THEN Throw(c.s, c.thrown, <<>>)
    ELSE Ret(c.s, Triples(c.s))

----------------------------------------------------------------------------
(* getStats, getInfo, setTTL, getTTL, close *)

ExpiredCount(md) == Len(SelectSeq(md, LAMBDA e : IsExpired(e.v)))

\* hits / totalOperations * 100, kept as the fraction num / den.
HitRate(st) ==
    IF st.totalOperations > 0
    THEN [num |-> st.hits * 100, den |-> st.totalOperations]
    ELSE [num |-> 0, den |-> 1]

getStats(s) ==
    [totalOperations |-> s.stats.totalOperations, reads |-> s.stats.reads,
     writes |-> s.stats.writes, deletes |-> s.stats.deletes,
     evictions |-> s.stats.evictions, hits |-> s.stats.hits,
     misses |-> s.stats.misses,
     size |-> Len(s.data),
     maxSize |-> options.maxSize,
     expiredCount |-> ExpiredCount(s.metadata),
     hitRate |-> HitRate(s.stats)]

NoInfo == [found |-> FALSE]

\* A getInfo that removes the entry it finds expired, as has does.
getInfoExpiring(s, key) ==
    IF ~MapHas(s.data, key) \/ ~MapHas(s.metadata, key) THEN Ret(s, NoInfo)
    ELSE LET m == MapGet(s.metadata, key) IN
         IF IsExpired(m) THEN Ret(RemoveEntry(s, key), NoInfo)
         ELSE Ret(s, [found |-> TRUE, key |-> key, value |-> MapGet(s.data, key),
                      metadata |->
                         [createdAt |-> m.createdAt, ttl |-> m.ttl,
                          expiresAt |-> m.expiresAt, accessCount |-> m.accessCount,
                          lastAccess |-> m.lastAccess, isExpired |-> FALSE]])

getInfo(s, key) ==
    IF ~MapHas(s.data, key) THEN Ret(s, NoInfo)
    ELSE IF ~MapHas(s.metadata, key) THEN Throw(s, "TypeError", NoInfo)
    ELSE LET m == MapGet(s.metadata, key) IN
         Ret(s, [found |-> TRUE, key |-> key, value |-> MapGet(s.data, key),
                 metadata |->
                    [createdAt |-> m.createdAt, ttl |-> m.ttl,
                     expiresAt |-> m.expiresAt, accessCount |-> m.accessCount,
                     lastAccess |-> m.lastAccess,
                     isExpired |-> IF TruthyNum(m.expiresAt) THEN now > m.expiresAt
                                   ELSE FALSE]])

\* A re-timing that counts the new TTL from createdAt.
RetimedFromCreation(m, ttl) ==
    [m EXCEPT !.ttl = ttl,
              !.expiresAt = IF ttl > 0 THEN m.createdAt + ttl ELSE Null]

Retimed(m, ttl) ==
    [m EXCEPT !.ttl = ttl, !.expiresAt = IF ttl > 0 THEN now + ttl ELSE Null]

setTTL(s, key, ttl, f) ==
    IF ~MapHas(s.metadata, key) THEN Ret(s, FALSE)
    ELSE LET m == Retimed(MapGet(s.metadata, key), ttl)
             s1 == [s EXCEPT !.metadata = MapSet(@, key, m)]
             e == Emit(s1, [ch |-> "ttlUpdated", key |-> key, ttl |-> ttl], f)
         IN [s |-> e.s, ret |-> TRUE, thrown |-> e.thrown]

\* The difference without the clamp at 0.
RemainingSigned(m) == m.expiresAt - now

Remaining(m) ==
    LET remaining == m.expiresAt - now IN IF remaining > 0 THEN remaining ELSE 0

getTTL(s, key) ==
    IF ~MapHas(s.metadata, key) THEN Ret(s, Null)
    ELSE LET m == MapGet(s.metadata, key) IN
         IF ~TruthyNum(m.expiresAt) THEN Ret(s, Null) ELSE Ret(s, Remaining(m))

\* A close that emits 'closed' and leaves the interval timer set.
closeKeepingTimer(s, f) ==
    LET e == Emit(s, [ch |-> "closed", stats |-> getStats(s)], f)
    IN [s |-> e.s, ret |-> Undefined, thrown |-> e.thrown]

close(s, f) ==
    LET s1 == [s EXCEPT !.cleanupTimer = FALSE]
        e == Emit(s1, [ch |-> "closed", stats |-> getStats(s1)], f)
    IN [s |-> e.s, ret |-> Undefined, thrown |-> e.thrown]

----------------------------------------------------------------------------
(* The caller's view: the listing it holds, and histories of the run. *)

IsListing(op) == op.name \in {"keys", "values", "entries"}

\* entries() pushes this.metadata.get(key) itself into each triple: the
\* triple and the metadata map share one object until the map lets go of it,
\* which is when set puts a new object under the key or the key is removed.
\* (A key of the metadata map is a key of the data map, so a set of a
\* stored key evicts nothing and always reaches its metadata.set.)
StillShared(op, s) ==
    {k \in aliased : MapHas(s.metadata, k) /\ ~(op.name = "set" /\ op.key = k)}

\* What the held listing l shows when the store is s and the triples of the
\* keys in sh share their metadata object with it.
Seen(l, s, sh) ==
    IF sh = {} THEN l
    ELSE [i \in 1..Len(l) |->
            IF l[i].key \in sh
            THEN [l[i] EXCEPT !.metadata = MapGet(s.metadata, l[i].key)]
            ELSE l[i]]

TripleKeys(l) == {l[i].key : i \in 1..Len(l)}

RECURSIVE CleanupCount(_)
\* The expiredCount values of the cleanup events among evs, summed.
CleanupCount(evs) ==
    IF evs = <<>> THEN 0
    ELSE (IF Head(evs).ch = "cleanup" THEN Head(evs).expiredCount ELSE 0)
         + CleanupCount(Tail(evs))

\* The entry a set took out of the store to make room, as it was when the
\* set began.
Victim(op, r) ==
    IF op.name = "set" /\ KeySet(data) \ KeySet(r.s.data) # {}
    THEN LET k == CHOOSE x \in KeySet(data) \ KeySet(r.s.data) : TRUE
             m == MapGet(metadata, k)
         IN [key |-> k, createdAt |-> m.createdAt, expired |-> IsExpired(m)]
    ELSE NoVictim

NextBatch(op, r) ==
    IF /\ batch.ok
       /\ op.name = "set"
       /\ op.ttl = Null
       /\ r.thrown = NoThrow
       /\ r.ret = TRUE
       /\ op.key \notin batch.keys
       /\ batch.t0 \in {Null, now}
    THEN [ok |-> TRUE, t0 |-> now, keys |-> batch.keys \cup {op.key}]
    ELSE NoBatch

----------------------------------------------------------------------------
(* Actions: one per public operation, the timer's sweep, the clock. *)

\* A call that ended with result r.
Call(op, r) ==
    /\ running
    /\ calls < MaxOps
    /\ calls' = calls + 1
    /\ data' = r.s.data
    /\ metadata' = r.s.metadata
    /\ stats' = r.s.stats
    /\ cleanupTimer' = r.s.cleanupTimer
    /\ nextSweep' = IF r.s.cleanupTimer THEN nextSweep ELSE Null
    /\ events' = r.s.events
    /\ ret' = r.ret
    /\ raised' = (r.thrown # NoThrow)
    /\ lastOp' = op
    /\ prevWrite' =
          IF op.name # "set" THEN prevWrite
          ELSE [prevWrite EXCEPT ![op.key] =
                   IF MapHas(metadata, op.key)
                      /\ MapGet(metadata, op.key).expiresAt
                           = MapGet(metadata, op.key).createdAt
                             + MapGet(metadata, op.key).ttl
                   THEN [createdAt |-> MapGet(metadata, op.key).createdAt,
                         ttl |-> MapGet(metadata, op.key).ttl]
                   ELSE NoWrite]
    /\ listing' = IF IsListing(op) /\ r.thrown = NoThrow THEN r.ret
                  ELSE Seen(listing, r.s, StillShared(op, r.s))
    /\ aliased' = IF IsListing(op) /\ r.thrown = NoThrow
                  THEN (IF op.name = "entries" THEN TripleKeys(r.ret) ELSE {})
                  ELSE StillShared(op, r.s)
    /\ closed' = (closed \/ op.name = "close")
    /\ cleaned' = cleaned + CleanupCount(r.s.events)
    /\ batch' = NextBatch(op, r)
    /\ observed' = r.s.observed
    /\ evicted' = Victim(op, r)
    /\ UNCHANGED <<options, now, running>>

CallSet ==
    \E key \in Keys, ttl \in TtlArgs(options.ttl) :
        LET value == Payload(calls + 1) IN
        \E f \in Faults(set(Self, key, value, ttl, NoFault).s.events) :
            Call([name |-> "set", key |-> key, value |-> value, ttl |-> ttl],
                 set(Self, key, value, ttl, f))

CallGet ==
    \E key \in Keys :
        \E f \in Faults(get(Self, key, NoFault).s.events) :
            Call([name |-> "get", key |-> key], get(Self, key, f))

CallHas ==
    \E key \in Keys :
        \E f \in Faults(has(Self, key, NoFault).s.events) :
            Call([name |-> "has", key |-> key], has(Self, key, f))

CallDelete ==
    \E key \in Keys :
        \E f \in Faults(delete(Self, key, NoFault).s.events) :
            Call([name |-> "delete", key |-> key], delete(Self, key, f))

CallClear ==
    \E f \in Faults(clear(Self, NoFault).s.events) :
        Call([name |-> "clear"], clear(Self, f))

CallKeys ==
    \E f \in Faults(keys(Self, NoFault).s.events) :
        Call([name |-> "keys"], keys(Self, f))

CallValues ==
    \E f \in Faults(values(Self, NoFault).s.events) :
        Call([name |-> "values"], values(Self, f))

CallEntries ==
    \E f \in Faults(entries(Self, NoFault).s.events) :
        Call([name |-> "entries"], entries(Self, f))

CallGetStats == Call([name |-> "getStats"], Ret(Self, getStats(Self)))

CallGetInfo ==
    \E key \in Keys : Call([name |-> "getInfo", key |-> key], getInfo(Self, key))

CallSetTTL ==
    \E key \in Keys, ttl \in TtlValues :
        \E f \in Faults(setTTL(Self, key, ttl, NoFault).s.events) :
            Call([name |-> "setTTL", key |-> key, ttl |-> ttl],
                 setTTL(Self, key, ttl, f))

CallGetTTL ==
    \E key \in Keys : Call([name |-> "getTTL", key |-> key], getTTL(Self, key))

CallClose ==
    \E f \in Faults(close(Self, NoFault).s.events) :
        Call([name |-> "close"], close(Self, f))

\* The setInterval callback: due every cleanupInterval while the timer is set.
\* An exception that leaves the callback is uncaught and ends the process.
TimerSweep ==
    /\ running
    /\ cleanupTimer
    /\ now >= nextSweep
    /\ \E f \in Faults(_cleanupExpired(Self, NoFault).s.events) :
          LET r == _cleanupExpired(Self, f) IN
          /\ data' = r.s.data
          /\ metadata' = r.s.metadata
          /\ stats' = r.s.stats
          /\ events' = r.s.events
          /\ raised' = (r.thrown # NoThrow)
          /\ running' = (r.thrown = NoThrow)
          /\ listing' = Seen(listing, r.s, StillShared([name |-> "sweep"], r.s))
          /\ aliased' = StillShared([name |-> "sweep"], r.s)
          /\ cleaned' = cleaned + CleanupCount(r.s.events)
          /\ observed' = r.s.observed
    /\ evicted' = NoVictim
    /\ nextSweep' = nextSweep + options.cleanupInterval
    /\ ret' = Undefined
    /\ lastOp' = [name |-> "sweep"]
    /\ UNCHANGED <<options, cleanupTimer, now, calls, prevWrite, closed, batch>>

\* Date.now() moves on by a millisecond; a due timer callback runs first.
Tick ==
    /\ running
    /\ now < MaxTime
    /\ cleanupTimer => now < nextSweep
    /\ now' = now + 1
    /\ events' = <<>>
    /\ ret' = Undefined
    /\ raised' = FALSE
    /\ lastOp' = [name |-> "tick"]
    /\ observed' = <<>>
    /\ evicted' = NoVictim
    /\ UNCHANGED <<options, data, metadata, stats, cleanupTimer, nextSweep, running,
                   calls, prevWrite, listing, aliased, closed, cleaned, batch>>

Next ==
    \/ CallSet
    \/ CallGet
    \/ CallHas
    \/ CallDelete
    \/ CallClear
    \/ CallKeys
    \/ CallValues
    \/ CallEntries
    \/ CallGetStats
    \/ CallGetInfo
    \/ CallSetTTL
    \/ CallGetTTL
    \/ CallClose
    \/ TimerSweep
    \/ Tick

Spec == Init /\ [][Next]_vars

----------------------------------------------------------------------------
(* Properties. *)

\* This step is a call of the public operation `name`.
Called(name) == calls' = calls + 1 /\ lastOp'.name = name

\* This step is a sweep pass: the timer's, or the one keys/values/entries run.
Swept ==
    \/ lastOp'.name = "sweep" /\ nextSweep' # nextSweep
    \/ Called("keys") \/ Called("values") \/ Called("entries")

\* The last step was a call of `name` that returned to its caller.
Returned(name) == lastOp.name = name /\ ~raised

\* The key is stored, with its metadata.
Stored(k) == MapHas(data, k) /\ MapHas(metadata, k)

\* A subscriber threw during the last step.
SubscriberThrew == \E i \in 1..Len(events) : events[i].ch = "error"

(* C1: for a store with maxSize >= 1, after every set that returns, the    *)
(* number of stored keys is at most maxSize (any keys, the empty string    *)
(* included, any TTLs, whatever the clock does).                           *)
CapacityInvariant ==
    (Returned("set") /\ options.maxSize >= 1) => Len(data) <= options.maxSize

(* C2: with maxSize = 0 the store is empty after every set that returns.   *)
ZeroCapacityEmpty ==
    (Returned("set") /\ options.maxSize = 0) => Len(data) = 0

(* C3: in every reachable state, a subscriber having thrown or not, the    *)
(* data map and the metadata map hold the same keys.                       *)
SameKeys == KeySet(data) = KeySet(metadata) /\ Len(data) = Len(metadata)

\* A state after a set or delete during which a subscriber threw, the store
\* not empty.
SameKeysWitness ==
    /\ lastOp.name \in {"set", "delete"}
    /\ SubscriberThrew
    /\ Len(data) >= 1

(* C4: an entry written at t0 with TTL T > 0 and not re-timed since is     *)
(* reported present by get and has at every time before t0 + T and absent  *)
(* at every time after t0 + T, and no sweep pass removes it before t0 + T. *)
TtlCorrectness ==
    [][\A k \in Keys :
        (Stored(k) /\ MapGet(metadata, k).ttl > 0
           /\ MapGet(metadata, k).expiresAt
                = MapGet(metadata, k).createdAt + MapGet(metadata, k).ttl)
        => LET deadline == MapGet(metadata, k).createdAt + MapGet(metadata, k).ttl IN
           /\ (Called("get") /\ lastOp'.key = k /\ now < deadline)
                => (~raised' /\ ret' = MapGet(data, k))
           /\ (Called("get") /\ lastOp'.key = k /\ now > deadline)
                => (~raised' /\ ret' = Undefined)
           /\ (Called("has") /\ lastOp'.key = k /\ now < deadline)
                => (~raised' /\ ret' = TRUE)
           /\ (Called("has") /\ lastOp'.key = k /\ now > deadline)
                => (~raised' /\ ret' = FALSE)
           /\ (Swept /\ now < deadline) => MapHas(data', k)
      ]_vars

(* C5: an entry whose ttl is 0 has no expiresAt, and it leaves the store   *)
(* only by delete of its key, by clear or by the capacity eviction of a    *)
(* set: never by get, has, keys/values/entries or a timer sweep, however   *)
(* far the clock has advanced.                                             *)
NoExpirySentinel ==
    [][\A k \in Keys :
        (Stored(k) /\ MapGet(metadata, k).ttl = 0)
        => /\ MapGet(metadata, k).expiresAt = Null
           /\ ~MapHas(data', k)
                => \/ Called("delete") /\ lastOp'.key = k
                   \/ Called("clear")
                   \/ /\ Called("set") /\ lastOp'.key # k
                      /\ ~MapHas(data, lastOp'.key)
                      /\ Len(data) >= options.maxSize
      ]_vars

\* In a store whose default TTL is positive, an entry written with the
\* override 0 is still stored after a sweep pass later than createdAt plus
\* the default TTL.
NoExpirySentinelWitness ==
    /\ lastOp.name \in {"sweep", "keys", "get", "has"}
    /\ options.ttl > 0
    /\ \E k \in Keys :
          /\ Stored(k)
          /\ MapGet(metadata, k).ttl = 0
          /\ now > MapGet(metadata, k).createdAt + options.ttl

(* C6: a set that inserts an absent key into a store holding maxSize       *)
(* entries (at least one) removes exactly one entry, the one with the      *)
(* smallest createdAt (the first such in the scan's order), adds 1 to      *)
(* evictions and publishes one eviction event, reason size_limit, naming   *)
(* it; so maxSize = 2 and set A, B, C leaves {B, C}.                       *)
FirstOldest(md) ==
    md[CHOOSE j \in 1..Len(md) :
          /\ \A h \in 1..Len(md) : md[j].v.createdAt <= md[h].v.createdAt
          /\ \A h \in 1..(j - 1) : md[h].v.createdAt > md[j].v.createdAt].k

EvictionEvents(evs) == SelectSeq(evs, LAMBDA e : e.ch = "eviction")

FifoEviction ==
    [][(/\ Called("set")
        /\ ~MapHas(data, lastOp'.key)
        /\ Len(data) = options.maxSize
        /\ Len(metadata) >= 1
        /\ MapHas(data', lastOp'.key))
       => /\ KeySet(data')
               = (KeySet(data) \ {FirstOldest(metadata)}) \cup {lastOp'.key}
          /\ Len(data') = Len(data)
          /\ stats'.evictions = stats.evictions + 1
          /\ EvictionEvents(events')
               = <<[ch |-> "eviction", key |-> FirstOldest(metadata),
                    reason |-> "size_limit"]>>
      ]_vars

(* C7: a set of key k at t1 that overwrites an entry written at t0 with    *)
(* the same TTL T, t0 < t1 < t0 + T, leaves createdAt = t1 and expiresAt   *)
(* = t1 + T, and a get of k at any time in (t0 + T, t1 + T) returns the    *)
(* second value.                                                           *)
Overwritten(k) ==
    /\ Stored(k)
    /\ prevWrite[k].ttl > 0
    /\ MapGet(metadata, k).ttl = prevWrite[k].ttl
    /\ prevWrite[k].createdAt < MapGet(metadata, k).createdAt
    /\ MapGet(metadata, k).createdAt < prevWrite[k].createdAt + prevWrite[k].ttl

OverwriteResetsTtl ==
    [][\A k \in Keys :
        /\ (Called("set") /\ lastOp'.key = k /\ Overwritten(k)')
             => /\ MapGet(metadata', k).createdAt = now
                /\ MapGet(metadata', k).expiresAt = now + MapGet(metadata', k).ttl
                /\ MapGet(data', k) = lastOp'.value
        /\ (/\ Called("get") /\ lastOp'.key = k /\ Overwritten(k)
            /\ MapGet(metadata, k).expiresAt
                 = MapGet(metadata, k).createdAt + MapGet(metadata, k).ttl
            /\ now > prevWrite[k].createdAt + prevWrite[k].ttl
            /\ now < MapGet(metadata, k).createdAt + MapGet(metadata, k).ttl)
             => (~raised' /\ ret' = MapGet(data, k))
      ]_vars

(* C8: a set(k, v) that returned true, followed at once by get(k), makes   *)
(* get return v.                                                           *)
RoundTrip ==
    [][(/\ lastOp.name = "set" /\ ~raised /\ ret = TRUE
        /\ Called("get") /\ lastOp'.key = lastOp.key)
       => (~raised' /\ ret' = lastOp.value)
      ]_vars

(* C9: getStats().hitRate is hits / (hits + misses) * 100, and 0 when      *)
(* there were neither hits nor misses.                                     *)
HitRateFormula ==
    LET st == getStats(Self) IN
    IF st.hits + st.misses = 0 THEN st.hitRate.num = 0
    ELSE st.hitRate.num * (st.hits + st.misses) = st.hits * 100 * st.hitRate.den

(* C10: no public operation raises to its caller, whatever the             *)
(* subscribers do and whether or not the error channel has a subscriber.   *)
NeverRaises == lastOp.name # "sweep" => ~raised

(* C11: a set or delete that returns false leaves the data map and the     *)
(* metadata map exactly as they were before the call (no partial write).   *)
NoPartialWrites ==
    [][((Called("set") \/ Called("delete")) /\ ~raised' /\ ret' = FALSE)
       => (data' = data /\ metadata' = metadata)
      ]_vars

(* C12: a timer-driven sweep pass during which a subscriber throws does    *)
(* not end the recurring sweep: an error event is emitted, the process     *)
(* goes on and the next pass is due one cleanupInterval later.             *)
SweepSurvivesFault ==
    (lastOp.name = "sweep" /\ (raised \/ SubscriberThrew))
    => /\ SubscriberThrew
       /\ running
       /\ cleanupTimer
       /\ nextSweep = now + options.cleanupInterval

(* C13: close never raises, however often it is called, and every close    *)
(* leaves the sweep timer cancelled with no timer handle behind.           *)
IdempotentClose ==
    lastOp.name = "close" => (~raised /\ ~cleanupTimer /\ nextSweep = Null)

(* C14: close cancels the sweep timer, and once there is no timer no       *)
(* operation creates one and no timer-driven sweep pass runs, whatever is  *)
(* called on the store afterwards.                                         *)
NoSweepAfterClose ==
    [][/\ Called("close") => ~cleanupTimer'
       /\ ~cleanupTimer => (~cleanupTimer' /\ lastOp'.name # "sweep")
      ]_vars

\* A store that was constructed with a timer and closed, used again at a
\* time when a pass of that timer would have been due.
NoSweepAfterCloseWitness ==
    /\ AutoCleanupOn(options)
    /\ ~cleanupTimer
    /\ lastOp.name \in {"set", "get", "keys", "setTTL"}
    /\ now >= options.cleanupInterval

(* C15: in a store with autoCleanup on that has not been closed, an entry  *)
(* whose expiry instant has passed is removed in the background, by the    *)
(* first timer pass after that instant: no entry stays stored more than    *)
(* one cleanupInterval past its expiresAt, whether its TTL is the store's  *)
(* default or was given to set or setTTL in a store whose default is 0.    *)
BackgroundExpiry ==
    (options.autoCleanup /\ ~closed /\ running)
    => \A k \in Keys :
          (Stored(k) /\ TruthyNum(MapGet(metadata, k).expiresAt))
          => now <= MapGet(metadata, k).expiresAt + options.cleanupInterval

(* C16: in a store with default ttl T > 0, autoCleanup on and              *)
(* cleanupInterval < T, after N distinct keys were set at one instant t0   *)
(* and nothing else was called, once the clock has passed                  *)
(* t0 + T + cleanupInterval the store is empty and the expiredCount values *)
(* of the cleanup events emitted sum to N. As stated, for any N; as it     *)
(* holds, for N <= maxSize (beyond that, set evicts for capacity).         *)
BatchOverdue ==
    /\ batch.ok
    /\ batch.t0 # Null
    /\ options.ttl > 0
    /\ options.autoCleanup
    /\ options.cleanupInterval < options.ttl
    /\ now > batch.t0 + options.ttl + options.cleanupInterval

BatchSwept == Len(data) = 0 /\ cleaned = Cardinality(batch.keys)

CleanupEvents(evs) == SelectSeq(evs, LAMBDA e : e.ch = "cleanup")

CleanupCountExact ==
    [][Swept =>
         LET removed == Cardinality(KeySet(data) \ KeySet(data'))
             cl == CleanupEvents(events')
         IN /\ Len(cl) <= 1
            /\ Len(cl) = 1 => /\ cl[1].expiredCount = removed
                              /\ stats'.evictions = stats.evictions + removed
            /\ removed = 0 => Len(cl) = 0
      ]_vars

\* A sweep pass has just removed two keys and published its cleanup event.
CleanupCountExactWitness ==
    /\ lastOp.name \in {"sweep", "keys", "values", "entries"}
    /\ Len(CleanupEvents(events)) = 1
    /\ CleanupEvents(events)[1].expiredCount = 2

(* C18: a keys(), values() or entries() that returns lists the stored      *)
(* entries and leaves no entry in the store whose expiresAt is earlier     *)
(* than the clock, in every configuration, default ttl = 0 with per-entry  *)
(* TTLs included.                                                          *)
ListingsLive ==
    (lastOp.name \in {"keys", "values", "entries"} /\ ~raised)
    => /\ Len(ret) = Len(data)
       /\ \A i \in 1..Len(metadata) : ~IsExpired(metadata[i].v)

(* C19: a listing returned by keys(), values() or entries() is a snapshot: *)
(* until the caller takes another listing, no step of the store changes    *)
(* anything seen through it, the metadata inside the triples of entries()  *)
(* included.                                                               *)
SnapshotListings ==
    [][~(Called("keys") \/ Called("values") \/ Called("entries"))
       => listing' = listing
      ]_vars

(* C20: the accessCount of an entry that stays stored (and is not written  *)
(* anew by set) grows by exactly 1 in a get of its key that returns its    *)
(* value, and is unchanged by every other step: a get that does not return *)
(* its value, has, getInfo, getTTL, setTTL, getStats, the listings, the    *)
(* sweep passes.                                                           *)
AccessCountFrame ==
    [][\A k \in Keys :
        (Stored(k) /\ MapHas(metadata', k) /\ ~(Called("set") /\ lastOp'.key = k))
        => MapGet(metadata', k).accessCount
             = IF /\ Called("get") /\ lastOp'.key = k
                  /\ ~raised' /\ ret' = MapGet(data, k)
               THEN MapGet(metadata, k).accessCount + 1
               ELSE MapGet(metadata, k).accessCount
      ]_vars

(* C21: has(key) answers as get's expiry test does (true exactly when get  *)
(* would return the value) and never changes reads, hits, misses or any    *)
(* entry's accessCount or lastAccess; for an absent or live key it changes *)
(* no counter, no stored data, and publishes nothing; for an expired key   *)
(* its only effect is the removal of that entry by delete (which counts    *)
(* itself in deletes and totalOperations).                                 *)
HasFrame ==
    [][\A k \in Keys :
        (Called("has") /\ lastOp'.key = k)
        => LET expired == Stored(k) /\ IsExpired(MapGet(metadata, k)) IN
           /\ ~raised' => (ret' = (get(Self, k, NoFault).ret # Undefined))
           /\ ~expired => /\ ~raised'
                          /\ data' = data /\ metadata' = metadata
                          /\ stats' = stats
                          /\ events' = <<>>
           /\ expired => /\ ~raised' => ret' = FALSE
                         /\ data' = MapDelete(data, k)
                         /\ metadata' = MapDelete(metadata, k)
                         /\ [stats' EXCEPT !.deletes = stats.deletes,
                                           !.totalOperations = stats.totalOperations]
                              = stats
      ]_vars

\* A has of an expired key has just removed it.
HasFrameWitness ==
    /\ lastOp.name = "has"
    /\ ret = FALSE
    /\ \E i \in 1..Len(events) : events[i].ch = "delete"
    /\ Len(data) >= 1

(* C22: delete(key) of a present key removes it from both maps, returns    *)
(* true and publishes exactly one event, a delete event carrying the size  *)
(* after the removal; delete(key) of an absent key returns false,          *)
(* publishes nothing and leaves data, metadata and every counter as they   *)
(* were.                                                                   *)
DeleteContract ==
    [][\A k \in Keys :
        (Called("delete") /\ lastOp'.key = k)
        => IF MapHas(data, k)
           THEN /\ ~raised' /\ ret' = TRUE
                /\ data' = MapDelete(data, k)
                /\ metadata' = MapDelete(metadata, k)
                /\ events' = <<[ch |-> "delete", key |-> k, size |-> Len(data')]>>
           ELSE /\ ~raised' /\ ret' = FALSE
                /\ events' = <<>>
                /\ data' = data /\ metadata' = metadata /\ stats' = stats
      ]_vars

(* C23: clear() returns the number of keys stored just before the call,    *)
(* leaves the data map and the metadata map empty, and leaves every        *)
(* statistics counter unchanged.                                           *)
ClearContract ==
    [][Called("clear")
       => /\ ~raised' /\ ret' = Len(data)
          /\ data' = <<>> /\ metadata' = <<>>
          /\ stats' = stats
      ]_vars

(* C24: setTTL(key, ttl) of an absent key returns false and changes        *)
(* nothing; of a present key it sets metadata.ttl = ttl and expiresAt =    *)
(* now + ttl for ttl > 0 (none for ttl = 0), counted from the call and not *)
(* from createdAt, leaves the value, createdAt, accessCount, lastAccess,   *)
(* every other entry and all counters unchanged, publishes one ttlUpdated  *)
(* event and returns true.                                                 *)
SetTtlContract ==
    [][\A k \in Keys :
        (Called("setTTL") /\ lastOp'.key = k)
        => IF MapHas(metadata, k)
           THEN /\ ~raised' /\ ret' = TRUE
                /\ data' = data
                /\ metadata' = MapSet(metadata, k,
                       [MapGet(metadata, k) EXCEPT
                           !.ttl = lastOp'.ttl,
                           !.expiresAt = IF lastOp'.ttl > 0 THEN now + lastOp'.ttl
                                         ELSE Null])
                /\ stats' = stats
                /\ events' = <<[ch |-> "ttlUpdated", key |-> k, ttl |-> lastOp'.ttl]>>
           ELSE /\ ~raised' /\ ret' = FALSE
                /\ events' = <<>>
                /\ data' = data /\ metadata' = metadata /\ stats' = stats
      ]_vars

(* C25: getTTL(key) returns null when the key is unknown or its entry has  *)
(* no expiry, and otherwise max(0, expiresAt - now): never a negative      *)
(* number.                                                                 *)
GetTtlContract ==
    [][\A k \in Keys :
        (Called("getTTL") /\ lastOp'.key = k)
        => /\ ~raised'
           /\ IF ~MapHas(metadata, k) \/ MapGet(metadata, k).expiresAt = Null
              THEN ret' = Null
              ELSE /\ ret' >= 0
                   /\ ret' = IF MapGet(metadata, k).expiresAt - now > 0
                             THEN MapGet(metadata, k).expiresAt - now
                             ELSE 0
      ]_vars

\* getTTL of an entry past its expiry has returned 0.
GetTtlContractWitness ==
    /\ lastOp.name = "getTTL"
    /\ Stored(lastOp.key)
    /\ IsExpired(MapGet(metadata, lastOp.key))
    /\ ret = 0

(* C26: getInfo, getTTL and getStats are read-only: in any state, one that *)
(* holds expired, unswept entries included, they remove no entry, change   *)
(* no metadata and no counter, and publish nothing; getInfo of an expired  *)
(* entry reports it with isExpired = true, and getStats reports            *)
(* expiredCount = the number of stored entries whose expiresAt has passed. *)
PastExpiry(k) ==
    /\ Stored(k)
    /\ MapGet(metadata, k).expiresAt # Null
    /\ now > MapGet(metadata, k).expiresAt

DiagnosticsReadOnly ==
    [][(Called("getInfo") \/ Called("getTTL") \/ Called("getStats"))
       => /\ ~raised'
          /\ data' = data /\ metadata' = metadata /\ stats' = stats
          /\ events' = <<>>
          /\ Called("getInfo") =>
                /\ ret'.found = MapHas(data, lastOp'.key)
                /\ ret'.found =>
                      /\ ret'.value = MapGet(data, lastOp'.key)
                      /\ ret'.metadata.isExpired = PastExpiry(lastOp'.key)
          /\ Called("getStats") =>
                ret'.expiredCount = Cardinality({k \in Keys : PastExpiry(k)})
      ]_vars

\* getInfo has reported an expired entry, which is still stored.
DiagnosticsReadOnlyWitness ==
    /\ lastOp.name = "getInfo"
    /\ ret.found
    /\ ret.metadata.isExpired
    /\ Stored(lastOp.key)

(* C27: none of the counters totalOperations, reads, writes, deletes,      *)
(* evictions, hits and misses is lowered or reset by any step: a public    *)
(* operation, a sweep pass, clear, close.                                  *)
CountersMonotonic ==
    [][\A c \in DOMAIN ZeroStats : stats'[c] >= stats[c]]_vars

\* A clear has returned in a store whose counters had been raised.
CountersMonotonicWitness ==
    /\ lastOp.name = "clear"
    /\ stats.writes >= 1
    /\ stats.hits >= 1

(* C28: the expiresAt of a stored entry. As stated: in every reachable     *)
(* state expiresAt = createdAt + ttl when ttl > 0 and none when ttl = 0.   *)
(* As it holds: none when ttl = 0; createdAt + ttl as set writes it;       *)
(* t + ttl after a setTTL at time t; so always between createdAt + ttl and *)
(* now + ttl; and no other step changes an entry's createdAt, ttl or       *)
(* expiresAt.                                                              *)
ExpiresAtFromCreation ==
    \A k \in Keys :
        Stored(k) =>
            LET m == MapGet(metadata, k) IN
            /\ m.ttl > 0 => m.expiresAt = m.createdAt + m.ttl
            /\ m.ttl = 0 => m.expiresAt = Null

Timing(m) == <<m.createdAt, m.ttl, m.expiresAt>>

ExpiresAtFromLastTiming ==
    [][\A k \in Keys :
        MapHas(metadata', k) =>
            LET m == MapGet(metadata', k) IN
            /\ m.ttl >= 0
            /\ m.ttl = 0 => m.expiresAt = Null
            /\ m.ttl > 0 => /\ m.createdAt + m.ttl <= m.expiresAt
                            /\ m.expiresAt <= now' + m.ttl
            /\ IF Called("set") /\ lastOp'.key = k
               THEN m.createdAt = now
                    /\ m.ttl > 0 => m.expiresAt = m.createdAt + m.ttl
               ELSE IF Called("setTTL") /\ lastOp'.key = k
               THEN /\ m.ttl = lastOp'.ttl
                    /\ m.ttl > 0 => m.expiresAt = now + m.ttl
                    /\ m.createdAt = MapGet(metadata, k).createdAt
               ELSE Timing(m) = Timing(MapGet(metadata, k))
      ]_vars

\* An entry that setTTL re-timed later than it was created.
ExpiresAtFromLastTimingWitness ==
    /\ lastOp.name = "setTTL"
    /\ Stored(lastOp.key)
    /\ MapGet(metadata, lastOp.key).ttl > 0
    /\ MapGet(metadata, lastOp.key).expiresAt
         > MapGet(metadata, lastOp.key).createdAt + MapGet(metadata, lastOp.key).ttl

(* C29: a set of a key that is already stored, live or expired and not yet *)
(* swept, evicts nothing, also in a store that holds maxSize entries: the  *)
(* stored keys stay the same, every other key keeps its value and its      *)
(* metadata, the evictions counter does not change and no eviction event   *)
(* is published.                                                           *)
OverwriteEvictsNothing ==
    [][\A k \in Keys :
        (Called("set") /\ lastOp'.key = k /\ MapHas(data, k))
        => /\ MapKeys(data') = MapKeys(data)
           /\ MapKeys(metadata') = MapKeys(metadata)
           /\ \A j \in KeySet(data) \ {k} :
                 /\ MapGet(data', j) = MapGet(data, j)
                 /\ MapGet(metadata', j) = MapGet(metadata, j)
           /\ stats'.evictions = stats.evictions
           /\ EvictionEvents(events') = <<>>
      ]_vars

\* A set has overwritten a key in a store that holds maxSize entries, two
\* or more.
OverwriteEvictsNothingWitness ==
    /\ lastOp.name = "set"
    /\ prevWrite[lastOp.key] # NoWrite
    /\ Len(data) = options.maxSize
    /\ Len(data) >= 2

(* C30: a set of a key that is already stored writes its metadata anew:    *)
(* afterwards the entry has the new value, createdAt = now, ttl = the      *)
(* effective TTL of this call (the override if given, else the store       *)
(* default; not the TTL of the previous write or of an earlier setTTL),    *)
(* expiresAt to match, accessCount = 0 and lastAccess = now.               *)
OverwriteRecreates ==
    [][\A k \in Keys :
        (Called("set") /\ lastOp'.key = k /\ MapHas(data, k))
        => LET ttl == IF lastOp'.ttl # Null THEN lastOp'.ttl ELSE options.ttl IN
           /\ MapGet(data', k) = lastOp'.value
           /\ MapGet(metadata', k)
                = [createdAt |-> now, ttl |-> ttl,
                   expiresAt |-> IF ttl > 0 THEN now + ttl ELSE Null,
                   accessCount |-> 0, lastAccess |-> now]
      ]_vars

\* A set with another TTL has overwritten an entry that a get had read:
\* the key was written, read, and written again (the two writes of the run).
OverwriteRecreatesWitness ==
    /\ lastOp.name = "set"
    /\ prevWrite[lastOp.key] # NoWrite
    /\ Stored(lastOp.key)
    /\ MapGet(metadata, lastOp.key).ttl # prevWrite[lastOp.key].ttl
    /\ stats.writes = 2
    /\ stats.hits >= 1

(* C31: a store constructed with ttl = 0 or with autoCleanup = false has   *)
(* no sweep timer and never runs a timer-driven sweep pass.                *)
TimerOnlyWhenConfigured ==
    [][(options.ttl = 0 \/ ~options.autoCleanup)
       => (~cleanupTimer /\ ~cleanupTimer' /\ lastOp'.name # "sweep")
      ]_vars

\* A store without autoCleanup, or with default ttl 0, holds an entry that
\* has been expired for a whole cleanupInterval or more.
TimerOnlyWhenConfiguredWitness ==
    /\ options.ttl = 0 \/ ~options.autoCleanup
    /\ \E k \in Keys :
          /\ Stored(k)
          /\ IsExpired(MapGet(metadata, k))
          /\ now >= MapGet(metadata, k).expiresAt + options.cleanupInterval

(* C32: every event is published with a payload that matches the store as  *)
(* it is at the moment of publication: the size of a set or delete event   *)
(* is the number of stored keys, the key of a set or hit event is stored,  *)
(* the key of a delete or eviction event is not, and the accessCount of a  *)
(* hit event is the entry's stored accessCount.                            *)
PayloadsMatchStore ==
    /\ Len(observed) = Len(events)
    /\ \A i \in 1..Len(events) :
          LET e == events[i]
              o == observed[i]
          IN /\ e.ch \in {"set", "delete"} => e.size = Len(o.data)
             /\ e.ch \in {"set", "hit"} =>
                   MapHas(o.data, e.key) /\ MapHas(o.metadata, e.key)
             /\ e.ch \in {"delete", "eviction"} =>
                   ~MapHas(o.data, e.key) /\ ~MapHas(o.metadata, e.key)
             /\ e.ch = "hit" =>
                   e.accessCount = MapGet(o.metadata, e.key).accessCount

\* An evicting set has published delete, eviction and set: the store held
\* one key at the first two and two keys at the third.
PayloadsMatchStoreWitness ==
    /\ Len(events) = 3
    /\ events[1].ch = "delete" /\ events[1].size = 1
    /\ events[2].ch = "eviction" /\ Len(observed[2].data) = 1
    /\ events[3].ch = "set" /\ events[3].size = 2

(* C33: event ordering within one operation.  A set that evicts publishes  *)
(* delete(victim), then eviction(victim), then set(newKey), all before it  *)
(* returns; a get of an expired key publishes delete(key) and then exactly *)
(* one miss(key, reason expired) before it returns absent; a get of an     *)
(* absent key publishes exactly one miss without reason and no delete.     *)
\* The events of the store's own channels, in the order of publication.
Published(evs) == SelectSeq(evs, LAMBDA e : e.ch # "error")

EventOrdering ==
    [][/\ (Called("set") /\ evicted' # NoVictim)
          => /\ ~raised'
             /\ Published(events')
                  = <<[ch |-> "delete", key |-> evicted'.key,
                       size |-> Len(data) - 1],
                      [ch |-> "eviction", key |-> evicted'.key,
                       reason |-> "size_limit"],
                      [ch |-> "set", key |-> lastOp'.key,
                       size |-> Len(data')]>>
       /\ (/\ Called("get")
           /\ Stored(lastOp'.key)
           /\ IsExpired(MapGet(metadata, lastOp'.key)))
          => /\ ~raised'
             /\ ret' = Undefined
             /\ Published(events')
                  = <<[ch |-> "delete", key |-> lastOp'.key,
                       size |-> Len(data) - 1],
                      [ch |-> "miss", key |-> lastOp'.key,
                       reason |-> "expired"]>>
       /\ (Called("get") /\ ~MapHas(data, lastOp'.key))
          => Published(events')
               = <<[ch |-> "miss", key |-> lastOp'.key, reason |-> Undefined]>>
      ]_vars

(* C34: the counter identities hold in every reachable state:              *)
(* totalOperations = reads + writes + deletes, and hits + misses = reads.  *)
CounterIdentities ==
    /\ stats.totalOperations = stats.reads + stats.writes + stats.deletes
    /\ stats.hits + stats.misses = stats.reads

\* The first identity alone.
TotalOperationsIdentity ==
    stats.totalOperations = stats.reads + stats.writes + stats.deletes

(* C35: in every reachable state evictions <= deletes.  A capacity         *)
(* eviction and each key a sweep removes add 1 to both counters; lazy      *)
(* expiry through get or has and an explicit delete add 1 to deletes only  *)
(* and never to evictions.                                                 *)
EvictionsWithinDeletes == stats.evictions <= stats.deletes

EvictionCounting ==
    [][/\ (Called("get") \/ Called("has") \/ Called("delete"))
          => /\ stats'.evictions = stats.evictions
             /\ stats'.deletes
                  = stats.deletes + Cardinality(KeySet(data) \ KeySet(data'))
       /\ (Called("set") \/ Swept)
          => /\ stats'.deletes
                  = stats.deletes + Cardinality(KeySet(data) \ KeySet(data'))
             /\ stats'.evictions - stats.evictions
                  = stats'.deletes - stats.deletes
      ]_vars

(* C36: setTTL performs no expiry check.  Called on an entry that is still *)
(* stored but already expired, it returns true and gives the entry a fresh *)
(* expiry (none for ttl = 0); a get that follows returns the old value as  *)
(* a hit.                                                                  *)
SetTtlRevives ==
    [][\A k \in Keys :
        /\ (/\ Called("setTTL") /\ lastOp'.key = k
            /\ Stored(k)
            /\ IsExpired(MapGet(metadata, k)))
           => /\ ~raised' /\ ret' = TRUE
              /\ MapHas(data', k) /\ MapGet(data', k) = MapGet(data, k)
              /\ MapHas(metadata', k)
              /\ MapGet(metadata', k).expiresAt
                   = IF lastOp'.ttl > 0 THEN now + lastOp'.ttl ELSE Null
              /\ ~IsExpired(MapGet(metadata', k))
        /\ (/\ lastOp.name = "setTTL" /\ lastOp.key = k /\ ~raised /\ ret = TRUE
            /\ Called("get") /\ lastOp'.key = k)
           => /\ ~raised'
              /\ ret' = MapGet(data, k)
              /\ stats'.hits = stats.hits + 1
              /\ stats'.misses = stats.misses
              /\ Stored(k)'
      ]_vars

(* C37: the expiry boundary.  At a check time equal to expiresAt the entry *)
(* is still live for get, has, getInfo (isExpired false), getStats (not    *)
(* counted in expiredCount) and the sweep (not removed), while getTTL      *)
(* already returns 0.  Hence getTTL(key) > 0 implies that has(key) is      *)
(* true, and getTTL(key) = 0 does not imply that has(key) is false.        *)
AtDeadline(k) == Stored(k) /\ MapGet(metadata, k).expiresAt = now

\* The entries whose expiresAt lies strictly before now.
PastDeadline ==
    {k \in KeySet(metadata) :
        TruthyNum(MapGet(metadata, k).expiresAt)
        /\ MapGet(metadata, k).expiresAt < now}

PositiveTtlMeansPresent ==
    \A k \in Keys : getTTL(Self, k).ret > 0 => has(Self, k, NoFault).ret = TRUE

ExpiryBoundary ==
    [][/\ PositiveTtlMeansPresent
       /\ PositiveTtlMeansPresent'
       /\ \A k \in Keys :
            AtDeadline(k) =>
              /\ (Called("get") /\ lastOp'.key = k)
                 => /\ Stored(k)'
                    /\ stats'.hits = stats.hits + 1
                    /\ stats'.misses = stats.misses
                    /\ stats'.deletes = stats.deletes
                    /\ Len(events') >= 1
                    /\ events'[1] = [ch |-> "hit", key |-> k,
                                     accessCount |->
                                        MapGet(metadata, k).accessCount + 1]
              /\ (Called("has") /\ lastOp'.key = k)
                 => ~raised' /\ ret' = TRUE /\ Stored(k)'
              /\ (Called("getInfo") /\ lastOp'.key = k)
                 => ~raised' /\ ret'.found /\ ~ret'.metadata.isExpired
              /\ (Called("getTTL") /\ lastOp'.key = k)
                 => ~raised' /\ ret' = 0
              /\ Called("getStats")
                 => ~raised' /\ ret'.expiredCount = Cardinality(PastDeadline)
              /\ Swept => Stored(k)'
      ]_vars

\* has has just answered true for an entry at its deadline, for which
\* getTTL answers 0.
ExpiryBoundaryWitness ==
    /\ lastOp.name = "has" /\ ~raised /\ ret = TRUE
    /\ AtDeadline(lastOp.key)
    /\ getTTL(Self, lastOp.key).ret = 0

(* C38: capacity eviction chooses its victim by createdAt alone and        *)
(* ignores expiry.  Expired entries that no sweep has removed count        *)
(* towards the size, and a set at capacity can evict a live entry with the *)
(* smallest createdAt while an already expired entry with a larger         *)
(* createdAt stays in the store.                                           *)
EvictionIgnoresExpiry ==
    [][(/\ Called("set")
        /\ ~MapHas(data, lastOp'.key)
        /\ Len(data) >= options.maxSize
        /\ Len(metadata) >= 1)
       => /\ KeySet(data) \ KeySet(data') \subseteq {FirstOldest(metadata)}
          /\ FirstOldest(metadata) # ""
               => KeySet(data) \ KeySet(data') = {FirstOldest(metadata)}
          /\ \A k \in KeySet(data) :
                MapGet(metadata, k).createdAt
                   > MapGet(metadata, FirstOldest(metadata)).createdAt
                => Stored(k)' /\ MapGet(metadata', k) = MapGet(metadata, k)
      ]_vars

\* A set has just evicted an entry that was live, and an entry that is
\* expired, created after the victim, is still stored.
EvictionIgnoresExpiryWitness ==
    /\ lastOp.name = "set"
    /\ evicted # NoVictim
    /\ ~evicted.expired
    /\ \E k \in Keys :
          /\ Stored(k)
          /\ IsExpired(MapGet(metadata, k))
          /\ MapGet(metadata, k).createdAt > evicted.createdAt

====
